---- MODULE Spec2Model ----
(***************************************************************************)
(* The three acquisition scripts of balluff_mvIMPACT_opencv as one state   *)
(* machine: capture_frames (example_balluff_areascan_opencv.py),           *)
(* capture_and_buffer (example_balluff_areascan_record_video.py) and       *)
(* capture_blocks (example_balluff_blockscan.py).  A session runs one of   *)
(* them against a device with a request pool of requestCount slots and a   *)
(* fixed image format; the stop thread sets the stop flag at any time.     *)
(* The 16-bit to 8-bit conversion is a pure function, checked under        *)
(* SpecConvert.                                                            *)
(***************************************************************************)
EXTENDS Integers, Sequences, FiniteSets, TLC

\* ------------------------------------------------------------------ bounds
\* Frames the device delivers in one session; also the largest frame_count.
MaxFrames == 4

\* Image geometries, formats and pool sizes of the sessions explored.
Heights == {1, 2}
Widths == {1}
ChannelCounts == {1, 3}
BitDepths == {8, 16}
RequestCounts == {0, 3, 7, 21}
\* image_size of a delivered frame: the consistent size plus one of these.
Skews == {-2, -1, 0, 1, 2}

\* ------------------------------------------------------- program constants
MAX_REQUESTS == 20
InitialBlockRequests == 5
PreviewEvery == 20
PreviewWindow == 40
AlphaNum == 255
AlphaDen == 65535
MaxSample == 65535
MaxByte == 255

Scripts == {"capture_frames", "capture_and_buffer", "capture_blocks"}

NoRequest == [nr |-> 0, seq |-> 0]
NoRate == [num |-> 0, den |-> 1]
NoFrame == [image_size |-> 0, height |-> 0, width |-> 0, channels |-> 0,
            bit_depth |-> 0, isOK |-> FALSE, seq |-> 0]

VARIABLES
    script,            \* which script this session runs
    height, width, channels, bit_depth,  \* the camera's configured format
    requestCount,      \* size of the device's request pool
    frame_count,       \* capture_frames: number entered by the user
    i,                 \* capture_frames: loop index of range(frame_count)
    pc,                \* position of the main thread
    k,                 \* priming loop: submissions attempted
    queued,            \* capture_and_buffer: successful initial submissions
    acquiring,         \* acquisition engine started and not stopped
    queue,             \* device: request numbers queued, in completion order
    held,              \* device: request numbers locked by the application
    live,              \* frames (by seq) whose buffer the application owns
    completed,         \* frames delivered by successful waits so far
    request_nr,        \* result of the last imageRequestWaitFor
    p_request, previous_request,
    frame,             \* the data readable through p_request
    outcome,           \* what processing the current frame did
    warning_flag, log, \* diagnostic throttle and the notices printed
    saved,             \* capture_frames: frame files written
    stitched_blocks,   \* capture_blocks: accumulated blocks
    requests,          \* capture_and_buffer: accumulated frames
    stop,              \* stop_acquisition / stop_recording
    stopThread,        \* "none", "running", "finished"
    waitsAfterStop,    \* waits started since the stop flag was set
    staleRead,         \* a sink read a buffer whose request was unlocked
    written, report,   \* output files of the accumulating sinks
    lastSubmit,        \* result of the last resubmission in the loop
    primed,            \* initial submissions the device accepted
    primeFailed,       \* initial submissions the device refused
    resubmits,         \* submissions attempted in the loop body
    resubmitFailed,    \* of these, refused by the device
    resubmitReported,  \* of these, reported on the console
    badUnlock,         \* unlock was called on a request not locked
    buffers,           \* device: frame (by seq) last written to each buffer
    final_image,       \* capture_blocks: rows of the stitched image
    goodBlocks,        \* capture_blocks: OK, well-formed frames delivered
    now,               \* the clock read by time.time()
    start_time, end_time,
    fps,               \* capture_and_buffer: rate given to VideoWriter
    cvIn, cvOut        \* SpecConvert: input samples, converted samples

vars == <<script, height, width, channels, bit_depth, requestCount,
          frame_count, i, pc, k, queued, acquiring, queue, held, live,
          completed, request_nr, p_request, previous_request, frame, outcome,
          warning_flag, log, saved, stitched_blocks, requests, stop,
          stopThread, waitsAfterStop, staleRead, written, report, lastSubmit,
          primed, primeFailed, resubmits, resubmitFailed, resubmitReported,
          badUnlock, buffers, final_image, goodBlocks, now, start_time, end_time,
          fps,
          cvIn, cvOut>>

sessionVars == <<script, height, width, channels, bit_depth, requestCount,
                 frame_count>>
convertVars == <<cvIn, cvOut>>
primeHist == <<primed, primeFailed>>
submitHist == <<resubmits, resubmitFailed, resubmitReported>>
clockVars == <<now, start_time, end_time, fps>>
histVars == <<primeHist, submitHist, clockVars, badUnlock, buffers,
              final_image, goodBlocks>>

\* ------------------------------------------------------------- the device
Range(s) == {s[j] : j \in 1..Len(s)}

FreeRequests == (1..requestCount) \ (held \cup Range(queue))

MinOf(S) == CHOOSE x \in S : \A y \in S : x <= y

\* fi.imageRequestSingle(): queues a free request of the pool, or fails.
SubmitOK == FreeRequests # {}

imageRequestSingle ==
    queue' = IF SubmitOK THEN Append(queue, MinOf(FreeRequests)) ELSE queue

\* Mutant of unlock: the call is forgotten, the request stays locked.
unlock_forgets(req) == UNCHANGED <<held, live, badUnlock>>

\* p_request.unlock(): the buffer goes back to the device's pool.
unlock(req) ==
    /\ held' = held \ {req.nr}
    /\ live' = live \ {req.seq}
    /\ badUnlock' = (badUnlock \/ req.nr \notin held \/ req.seq \notin live)


\* ------------------------------------------------- validation of a frame
\* np.frombuffer(cbuf, dtype) raises ValueError unless the byte count is a
\* multiple of the item size; otherwise arr.size is the quotient.
frombuffer_raises(image_size, itemsize) == image_size % itemsize # 0

frombuffer_size(image_size, itemsize) == image_size \div itemsize

\* capture_frames: the buffer is always read as uint16, before any check.
display_and_save_frame(f) ==
    IF frombuffer_raises(f.image_size, 2) THEN "raised"
    ELSE IF \/ frombuffer_size(f.image_size, 2) # f.height * f.width * f.channels
            \/ f.channels # 3
            \/ f.bit_depth # 16
         THEN "rejected"
         ELSE "accepted"

\* capture_and_buffer: format check first, then the buffer read as uint16.
convert_frame(f) ==
    IF f.channels # 3 \/ f.bit_depth # 16 THEN "rejected"
    ELSE IF frombuffer_raises(f.image_size, 2) THEN "raised"
    ELSE IF frombuffer_size(f.image_size, 2) # f.height * f.width * f.channels
         THEN "rejected"
         ELSE "accepted"

\* capture_blocks: dtype by bit depth, size check only.
block_itemsize(f) == IF f.bit_depth > 8 THEN 2 ELSE 1

extract_block(f) ==
    IF frombuffer_raises(f.image_size, block_itemsize(f)) THEN "raised"
    ELSE IF frombuffer_size(f.image_size, block_itemsize(f))
              # f.height * f.width * f.channels
         THEN "rejected"
         ELSE "accepted"

\* The array extract_block returns: for uint16 convertScaleAbs allocates a
\* new image; for uint8 it is the frombuffer/reshape view of the buffer.
extract_block_is_view(f) == ~(f.bit_depth > 8)

\* ------------------------------------------------ 16-bit to 8-bit rescale
Abs(x) == IF x < 0 THEN -x ELSE x

\* cvRound: nearest integer, ties to even, of num/den (den > 0, num >= 0).
cvRound(num, den) ==
    LET q == num \div den
        r == num % den
    IN  IF 2 * r < den THEN q
        ELSE IF 2 * r > den THEN q + 1
        ELSE IF q % 2 = 0 THEN q ELSE q + 1

saturate_cast_uchar(v) == IF v < 0 THEN 0 ELSE IF v > MaxByte THEN MaxByte ELSE v

\* Mutant of convertScaleAbsSample: the scaled value is truncated, not rounded.
convertScaleAbsSample_truncating(x) ==
    saturate_cast_uchar(Abs(x * AlphaNum) \div AlphaDen)

\* One sample through cv2.convertScaleAbs(arr, alpha=255.0/65535.0).
convertScaleAbsSample(x) ==
    saturate_cast_uchar(cvRound(Abs(x * AlphaNum), AlphaDen))

\* The whole array: element by element, order kept.
convertScaleAbs(arr) == [j \in 1..Len(arr) |-> convertScaleAbsSample(arr[j])]

\* ----------------------------------------------------------- diagnostics
\* handle_unsupported_format(info, warning_flag)
handle_unsupported_format ==
    IF ~warning_flag
    THEN /\ log' = Append(log, "verbose")
         /\ warning_flag' = TRUE
    ELSE /\ log' = Append(log, "terse")
         /\ UNCHANGED warning_flag

\* extract_block: print("Skipping malformed frame."), every time.
skipping_malformed_frame ==
    /\ log' = Append(log, "skipping_malformed")
    /\ UNCHANGED warning_flag

\* ------------------------------------------------------------------ sinks
LastN(s, n) == SubSeq(s, IF Len(s) > n THEN Len(s) - n + 1 ELSE 1, Len(s))

\* np.vstack / writer.write over accumulated entries reads every entry; an
\* entry that is a view reads the hardware buffer of its request.
ReadsReleased(entries, owned) ==
    \E j \in 1..Len(entries) : entries[j].view /\ entries[j].seq \notin owned

\* ------------------------------------------------------------------ clock
\* time.time(): the clock has moved on since the last reading.
Ticks == {1, 2}

time_time == {now + d : d \in Ticks}

\* A frame rate as a fraction; max(a, 1.0) of a positive fraction.
max_one(r) == IF r.num >= r.den THEN r ELSE [num |-> 1, den |-> 1]

\* effective_fps = len(frames) / duration; fps = max(effective_fps, 1.0)
video_fps(count, duration) == max_one([num |-> count, den |-> duration])

\* ----------------------------------------------------------------- Init
\* The state before the script's first statement.
NotStarted ==
    /\ i = 0
    /\ k = 0
    /\ queued = 0
    /\ acquiring = FALSE
    /\ queue = <<>>
    /\ held = {}
    /\ live = {}
    /\ completed = 0
    /\ request_nr = "none"
    /\ p_request = NoRequest
    /\ previous_request = NoRequest
    /\ frame = NoFrame
    /\ outcome = "none"
    /\ warning_flag = FALSE
    /\ log = <<>>
    /\ saved = 0
    /\ stitched_blocks = <<>>
    /\ requests = <<>>
    /\ stop = FALSE
    /\ waitsAfterStop = 0
    /\ staleRead = FALSE
    /\ written = 0
    /\ report = "none"
    /\ lastSubmit = "none"
    /\ primed = 0
    /\ primeFailed = 0
    /\ resubmits = 0
    /\ resubmitFailed = 0
    /\ resubmitReported = 0
    /\ badUnlock = FALSE
    /\ buffers = [nr \in 1..requestCount |-> 0]
    /\ final_image = <<>>
    /\ goodBlocks = <<>>
    /\ now = 0
    /\ start_time = 0
    /\ end_time = 0
    /\ fps = NoRate

Init ==
    /\ script \in Scripts
    /\ height \in Heights
    /\ width \in Widths
    /\ channels \in ChannelCounts
    /\ bit_depth \in BitDepths
    /\ requestCount \in RequestCounts
    /\ frame_count \in IF script = "capture_frames" THEN 1..MaxFrames ELSE {0}
    /\ pc = "prime"
    /\ stopThread = IF script = "capture_blocks" THEN "running" ELSE "none"
    /\ NotStarted
    /\ cvIn = <<>>
    /\ cvOut = <<>>

\* ---------------------------------------------------------------- priming
\* What the device answered to an initial fi.imageRequestSingle().
countInitialSubmit ==
    /\ primed' = IF SubmitOK THEN primed + 1 ELSE primed
    /\ primeFailed' = IF SubmitOK THEN primeFailed ELSE primeFailed + 1

\* Mutant of Prime_frames: one submission only, whatever the device says.
Prime_frames_submits_once ==
    /\ script = "capture_frames" /\ pc = "prime"
    /\ imageRequestSingle
    /\ countInitialSubmit
    /\ k' = IF SubmitOK THEN k + 1 ELSE k
    /\ pc' = "start"
    /\ UNCHANGED <<sessionVars, submitHist, clockVars, badUnlock, buffers,
                   final_image, goodBlocks, convertVars, i, queued, acquiring, held, live,
                   completed, request_nr, p_request, previous_request, frame,
                   outcome, warning_flag, log, saved, stitched_blocks,
                   requests, stop, stopThread, waitsAfterStop, staleRead,
                   written, report, lastSubmit>>

\* Mutant of Prime_buffer: the first refused submission ends the session.
Prime_buffer_fails_fast ==
    /\ script = "capture_and_buffer" /\ pc = "prime"
    /\ k < MAX_REQUESTS
    /\ imageRequestSingle
    /\ countInitialSubmit
    /\ queued' = IF SubmitOK THEN queued + 1 ELSE queued
    /\ k' = k + 1
    /\ pc' = IF ~SubmitOK THEN "crashed"
             ELSE IF k + 1 = MAX_REQUESTS THEN "start" ELSE "prime"
    /\ UNCHANGED <<sessionVars, submitHist, clockVars, badUnlock, buffers,
                   final_image, goodBlocks, convertVars, i, acquiring, held, live,
                   completed, request_nr, p_request, previous_request, frame,
                   outcome, warning_flag, log, saved, stitched_blocks,
                   requests, stop, stopThread, waitsAfterStop, staleRead,
                   written, report, lastSubmit>>

\* capture_frames: while fi.imageRequestSingle() == DMR_NO_ERROR
Prime_frames ==
    /\ script = "capture_frames" /\ pc = "prime"
    /\ imageRequestSingle
    /\ k' = IF SubmitOK THEN k + 1 ELSE k
    /\ pc' = IF SubmitOK THEN "prime" ELSE "start"
    /\ countInitialSubmit
    /\ UNCHANGED <<sessionVars, submitHist, clockVars, badUnlock, buffers, final_image, goodBlocks, convertVars, i, queued, acquiring, held, live,
                   completed, request_nr, p_request, previous_request, frame,
                   outcome, warning_flag, log, saved, stitched_blocks,
                   requests, stop, stopThread, waitsAfterStop, staleRead,
                   written, report, lastSubmit>>

\* capture_and_buffer: for _ in range(MAX_REQUESTS), counting successes
Prime_buffer ==
    /\ script = "capture_and_buffer" /\ pc = "prime"
    /\ k < MAX_REQUESTS
    /\ imageRequestSingle
    /\ queued' = IF SubmitOK THEN queued + 1 ELSE queued
    /\ k' = k + 1
    /\ pc' = IF k + 1 = MAX_REQUESTS THEN "start" ELSE "prime"
    /\ countInitialSubmit
    /\ UNCHANGED <<sessionVars, submitHist, clockVars, badUnlock, buffers, final_image, goodBlocks, convertVars, i, acquiring, held, live,
                   completed, request_nr, p_request, previous_request, frame,
                   outcome, warning_flag, log, saved, stitched_blocks,
                   requests, stop, stopThread, waitsAfterStop, staleRead,
                   written, report, lastSubmit>>

\* capture_blocks: for _ in range(5): fi.imageRequestSingle()
Prime_blocks ==
    /\ script = "capture_blocks" /\ pc = "prime"
    /\ k < InitialBlockRequests
    /\ imageRequestSingle
    /\ k' = k + 1
    /\ pc' = IF k + 1 = InitialBlockRequests THEN "start" ELSE "prime"
    /\ countInitialSubmit
    /\ UNCHANGED <<sessionVars, submitHist, clockVars, badUnlock, buffers, final_image, goodBlocks, convertVars, i, queued, acquiring, held, live,
                   completed, request_nr, p_request, previous_request, frame,
                   outcome, warning_flag, log, saved, stitched_blocks,
                   requests, stop, stopThread, waitsAfterStop, staleRead,
                   written, report, lastSubmit>>

\* manuallyStartAcquisitionIfNeeded and the initialisation before the loop;
\* capture_and_buffer starts its stop thread here.
StartAcquisition ==
    /\ pc = "start"
    /\ acquiring' = TRUE
    /\ previous_request' = NoRequest
    /\ warning_flag' = FALSE
    /\ stopThread' = IF script = "capture_and_buffer" THEN "running" ELSE stopThread
    /\ IF script = "capture_and_buffer"
       THEN /\ now' \in time_time
            /\ start_time' = now'
       ELSE UNCHANGED <<now, start_time>>
    /\ pc' = "loop"
    /\ UNCHANGED <<sessionVars, primeHist, submitHist, badUnlock, buffers,
                   final_image, goodBlocks, end_time, fps, convertVars, i, k, queued, queue, held, live,
                   completed, request_nr, p_request, frame, outcome, log,
                   saved, stitched_blocks, requests, stop, waitsAfterStop,
                   staleRead, written, report, lastSubmit>>

\* wait_for_user_to_stop / wait_for_enter: input() returns, the flag is set.
SetStop ==
    /\ stopThread = "running"
    /\ stop' = TRUE
    /\ stopThread' = "finished"
    /\ UNCHANGED <<sessionVars, histVars, convertVars, i, pc, k, queued, acquiring, queue,
                   held, live, completed, request_nr, p_request,
                   previous_request, frame, outcome, warning_flag, log, saved,
                   stitched_blocks, requests, waitsAfterStop, staleRead,
                   written, report, lastSubmit>>

\* ------------------------------------------------------------- main loop
\* for i in range(frame_count) / while not stop_acquisition / stop_recording
LoopCondition ==
    IF script = "capture_frames" THEN i < frame_count ELSE ~stop

LoopCheck ==
    /\ pc = "loop"
    /\ pc' = IF LoopCondition THEN "wait" ELSE "stopacq"
    /\ request_nr' = "none"
    /\ UNCHANGED <<sessionVars, histVars, convertVars, i, k, queued, acquiring, queue,
                   held, live, completed, p_request, previous_request, frame,
                   outcome, warning_flag, log, saved, stitched_blocks,
                   requests, stop, stopThread, waitsAfterStop, staleRead,
                   written, report, lastSubmit>>

\* Where `continue` goes: back to the loop's condition.
ContinueTarget == "loop"

\* The device delivers a frame of the configured format; a transfer may be
\* truncated or padded, and may be flagged not OK.
bytesPerSample(depth) == (depth + 7) \div 8

DeliveredSizes ==
    {height * width * channels * bytesPerSample(bit_depth) + d : d \in Skews}
        \cap (Nat \ {0})

\* A frame whose byte count matches its format: sizeBytes = width*height*channels*bytesPerSample.
Consistent(f) ==
    f.image_size = f.width * f.height * f.channels * bytesPerSample(f.bit_depth)

\* fi.imageRequestWaitFor(timeout) returns no request (timeout or error),
\* isRequestNrValid is false and the body is skipped with `continue`.
WaitFails ==
    /\ pc = "wait"
    /\ \E code \in {"timeout", "error"} : request_nr' = code
    /\ waitsAfterStop' = IF stop THEN waitsAfterStop + 1 ELSE waitsAfterStop
    /\ i' = IF script = "capture_frames" THEN i + 1 ELSE i
    /\ pc' = ContinueTarget
    /\ UNCHANGED <<sessionVars, histVars, convertVars, k, queued, acquiring, queue, held,
                   live, completed, p_request, previous_request, frame,
                   outcome, warning_flag, log, saved, stitched_blocks,
                   requests, stop, stopThread, staleRead, written, report,
                   lastSubmit>>

\* fi.imageRequestWaitFor(timeout) returns the oldest queued request, now
\* completed and locked by the application.
WaitReturns ==
    /\ pc = "wait"
    /\ acquiring
    /\ queue # <<>>
    /\ completed < MaxFrames
    /\ request_nr' = Head(queue)
    /\ queue' = Tail(queue)
    /\ held' = held \cup {Head(queue)}
    /\ live' = live \cup {completed + 1}
    /\ completed' = completed + 1
    /\ \E ok \in BOOLEAN, size \in DeliveredSizes :
         frame' = [image_size |-> size, height |-> height, width |-> width,
                   channels |-> channels, bit_depth |-> bit_depth,
                   isOK |-> ok, seq |-> completed + 1]
    /\ buffers' = [buffers EXCEPT ![Head(queue)] = completed + 1]
    /\ goodBlocks' =
           IF script = "capture_blocks" /\ frame'.isOK /\ Consistent(frame')
           THEN Append(goodBlocks, [seq |-> completed + 1, height |-> height])
           ELSE goodBlocks
    /\ waitsAfterStop' = IF stop THEN waitsAfterStop + 1 ELSE waitsAfterStop
    /\ pc' = "process"
    /\ UNCHANGED <<sessionVars, primeHist, submitHist, clockVars, badUnlock,
                   final_image, convertVars, i, k, queued, acquiring,
                   p_request, previous_request, outcome, warning_flag, log,
                   saved, stitched_blocks, requests, stop, stopThread,
                   staleRead, written, report, lastSubmit>>

\* fi.getRequest(request_nr)
getRequest == [nr |-> request_nr, seq |-> frame.seq]

\* capture_frames: isOK -> display_and_save_frame -> handle_unsupported_format
Process_frames ==
    /\ script = "capture_frames" /\ pc = "process"
    /\ p_request' = getRequest
    /\ IF frame.isOK
       THEN LET res == display_and_save_frame(frame)
            IN  /\ outcome' = res
                /\ IF res = "rejected"
                   THEN handle_unsupported_format
                   ELSE UNCHANGED <<warning_flag, log>>
                /\ saved' = IF res = "accepted" THEN saved + 1 ELSE saved
                /\ staleRead' = (staleRead \/ frame.seq \notin live)
                /\ pc' = IF res = "raised" THEN "crashed" ELSE "release"
       ELSE /\ outcome' = "notok"
            /\ pc' = "release"
            /\ UNCHANGED <<warning_flag, log, saved, staleRead>>
    /\ UNCHANGED <<sessionVars, histVars, convertVars, i, k, queued, acquiring, queue,
                   held, live, completed, request_nr, previous_request, frame,
                   stitched_blocks, requests, stop, stopThread,
                   waitsAfterStop, written, report, lastSubmit>>

\* capture_blocks: isOK -> extract_block -> append, preview every 20 blocks
AppendBlock ==
    Append(stitched_blocks,
           [seq |-> frame.seq, nr |-> request_nr, height |-> frame.height,
            view |-> extract_block_is_view(frame)])

Process_blocks ==
    /\ script = "capture_blocks" /\ pc = "process"
    /\ p_request' = getRequest
    /\ IF frame.isOK
       THEN LET res == extract_block(frame)
            IN  /\ outcome' = res
                /\ IF res = "rejected"
                   THEN skipping_malformed_frame
                   ELSE UNCHANGED <<warning_flag, log>>
                /\ stitched_blocks' =
                       IF res = "accepted" THEN AppendBlock ELSE stitched_blocks
                /\ staleRead' =
                       \/ staleRead
                       \/ frame.seq \notin live
                       \/ /\ res = "accepted"
                          /\ Len(AppendBlock) % PreviewEvery = 0
                          /\ ReadsReleased(LastN(AppendBlock, PreviewWindow), live)
                /\ pc' = IF res = "raised" THEN "crashed" ELSE "release"
       ELSE /\ outcome' = "notok"
            /\ pc' = "release"
            /\ UNCHANGED <<warning_flag, log, stitched_blocks, staleRead>>
    /\ UNCHANGED <<sessionVars, histVars, convertVars, i, k, queued, acquiring, queue,
                   held, live, completed, request_nr, previous_request, frame,
                   saved, requests, stop, stopThread, waitsAfterStop, written,
                   report, lastSubmit>>

\* capture_and_buffer: isOK -> convert_frame -> append; unlock on both
\* branches.  An exception of convert_frame leaves the request locked.
Process_buffer ==
    /\ script = "capture_and_buffer" /\ pc = "process"
    /\ p_request' = getRequest
    /\ now' \in IF frame.isOK /\ convert_frame(frame) = "accepted"
                THEN time_time ELSE {now}
    /\ IF frame.isOK
       THEN LET res == convert_frame(frame)
            IN  /\ outcome' = res
                /\ IF res = "rejected"
                   THEN handle_unsupported_format
                   ELSE UNCHANGED <<warning_flag, log>>
                /\ requests' =
                       IF res = "accepted"
                       THEN Append(requests,
                                   [seq |-> frame.seq, height |-> frame.height,
                                    view |-> FALSE, t |-> now'])
                       ELSE requests
                /\ staleRead' = (staleRead \/ frame.seq \notin live)
                /\ IF res = "raised"
                   THEN pc' = "crashed" /\ UNCHANGED <<held, live, badUnlock>>
                   ELSE pc' = "resubmit" /\ unlock(getRequest)
       ELSE /\ outcome' = "notok"
            /\ unlock(getRequest)
            /\ pc' = "resubmit"
            /\ UNCHANGED <<warning_flag, log, requests, staleRead>>
    /\ UNCHANGED <<sessionVars, primeHist, submitHist, start_time, end_time, fps, buffers, final_image, goodBlocks, convertVars, i, k, queued, acquiring, queue,
                   completed, request_nr, previous_request, frame, saved,
                   stitched_blocks, stop, stopThread, waitsAfterStop, written,
                   report, lastSubmit>>

\* Mutant of ReleasePrevious: previous_request is set once and not updated,
\* so the same request is unlocked in every later iteration.
ReleasePrevious_keeps_first ==
    /\ script \in {"capture_frames", "capture_blocks"} /\ pc = "release"
    /\ IF previous_request # NoRequest
       THEN unlock(previous_request)
       ELSE UNCHANGED <<held, live, badUnlock>>
    /\ previous_request' =
           IF previous_request = NoRequest THEN p_request ELSE previous_request
    /\ pc' = "resubmit"
    /\ UNCHANGED <<sessionVars, primeHist, submitHist, clockVars, buffers,
                   final_image, goodBlocks, convertVars, i, k, queued, acquiring, queue,
                   completed, request_nr, p_request, frame, outcome,
                   warning_flag, log, saved, stitched_blocks, requests, stop,
                   stopThread, waitsAfterStop, staleRead, written, report,
                   lastSubmit>>

\* Mutant of ReleasePrevious: the previous request is replaced without
\* being unlocked.
ReleasePrevious_keeps_locked ==
    /\ script \in {"capture_frames", "capture_blocks"} /\ pc = "release"
    /\ previous_request' = p_request
    /\ pc' = "resubmit"
    /\ UNCHANGED <<sessionVars, histVars, convertVars, i, k, queued, acquiring, queue,
                   held, live, completed, request_nr, p_request, frame,
                   outcome, warning_flag, log, saved, stitched_blocks,
                   requests, stop, stopThread, waitsAfterStop, staleRead,
                   written, report, lastSubmit>>

\* capture_frames, capture_blocks:
\*   if previous_request is not None: previous_request.unlock()
\*   previous_request = p_request
ReleasePrevious ==
    /\ script \in {"capture_frames", "capture_blocks"} /\ pc = "release"
    /\ IF previous_request # NoRequest
       THEN unlock(previous_request)
       ELSE UNCHANGED <<held, live, badUnlock>>
    /\ previous_request' = p_request
    /\ pc' = "resubmit"
    /\ UNCHANGED <<sessionVars, primeHist, submitHist, clockVars, buffers, final_image, goodBlocks, convertVars, i, k, queued, acquiring, queue,
                   completed, request_nr, p_request, frame, outcome,
                   warning_flag, log, saved, stitched_blocks, requests, stop,
                   stopThread, waitsAfterStop, staleRead, written, report,
                   lastSubmit>>

\* fi.imageRequestSingle() at the end of the loop body; a failure is at
\* most reported.  The loop then goes back to its condition.
Resubmit ==
    /\ pc = "resubmit"
    /\ imageRequestSingle
    /\ lastSubmit' = IF SubmitOK THEN "ok" ELSE "failed"
    /\ resubmits' = resubmits + 1
    /\ resubmitFailed' = IF SubmitOK THEN resubmitFailed ELSE resubmitFailed + 1
    /\ resubmitReported' = IF ~SubmitOK /\ script = "capture_and_buffer"
                           THEN resubmitReported + 1 ELSE resubmitReported
    /\ i' = IF script = "capture_frames" THEN i + 1 ELSE i
    /\ frame' = NoFrame
    /\ outcome' = "none"
    /\ pc' = "loop"
    /\ UNCHANGED <<sessionVars, primeHist, clockVars, badUnlock, buffers, final_image, goodBlocks, convertVars, k, queued, acquiring, held, live,
                   completed, request_nr, p_request, previous_request,
                   warning_flag, log, saved, stitched_blocks, requests, stop,
                   stopThread, waitsAfterStop, staleRead, written, report>>

\* manuallyStopAcquisitionIfNeeded, cv2.destroyAllWindows
StopAcquisition ==
    /\ pc = "stopacq"
    /\ acquiring' = FALSE
    /\ IF script = "capture_and_buffer"
       THEN /\ now' \in time_time
            /\ end_time' = now'
       ELSE UNCHANGED <<now, end_time>>
    /\ pc' = IF script = "capture_frames" THEN "done" ELSE "finalize"
    /\ UNCHANGED <<sessionVars, primeHist, submitHist, badUnlock, buffers,
                   final_image, goodBlocks, start_time, fps, convertVars, i, k, queued, queue, held, live,
                   completed, request_nr, p_request, previous_request, frame,
                   outcome, warning_flag, log, saved, stitched_blocks,
                   requests, stop, stopThread, waitsAfterStop, staleRead,
                   written, report, lastSubmit>>

\* Mutant of HasFrames: the output is written whatever was accumulated.
HasFrames_always(acc) == TRUE

\* `if stitched_blocks:` / `if requests:`
HasFrames(acc) == acc # <<>>

\* What reading one accumulated block yields, named by the frame whose
\* pixels are read.  A copy holds its own frame.  A view reads the hardware
\* buffer of its request: its own frame while the request is still locked;
\* after the unlock, whatever the buffer holds at that moment, the frame the
\* device last wrote there or, while the buffer is queued for capture again,
\* a partly written frame (0).
BlockContents(e) ==
    IF e.view /\ e.seq \notin live
    THEN {buffers[e.nr]} \cup (IF e.nr \in Range(queue) THEN {0} ELSE {})
    ELSE {e.seq}

Rows(content, h) == [r \in 1..h |-> content]

\* np.vstack(stitched_blocks): the rows of every block, in list order.
RECURSIVE vstack(_)
vstack(entries) ==
    IF entries = <<>> THEN {<<>>}
    ELSE {Rows(c, Head(entries).height) \o rest :
              c \in BlockContents(Head(entries)), rest \in vstack(Tail(entries))}

\* capture_blocks: if stitched_blocks: np.vstack, cv2.imwrite; else report
Finalize_blocks ==
    /\ script = "capture_blocks" /\ pc = "finalize"
    /\ IF HasFrames(stitched_blocks)
       THEN /\ staleRead' = (staleRead \/ ReadsReleased(stitched_blocks, live))
            /\ final_image' \in vstack(stitched_blocks)
            /\ written' = written + 1
            /\ report' = "saved"
       ELSE /\ report' = "nothing to save"
            /\ UNCHANGED <<staleRead, written, final_image>>
    /\ pc' = "done"
    /\ UNCHANGED <<sessionVars, primeHist, submitHist, clockVars, badUnlock,
                   buffers, goodBlocks, convertVars, i, k, queued, acquiring, queue,
                   held, live, completed, request_nr, p_request,
                   previous_request, frame, outcome, warning_flag, log, saved,
                   stitched_blocks, requests, stop, stopThread,
                   waitsAfterStop, lastSubmit>>

\* capture_and_buffer: if requests: VideoWriter, write every frame, release;
\* else "No frames captured."
Finalize_buffer ==
    /\ script = "capture_and_buffer" /\ pc = "finalize"
    /\ IF HasFrames(requests)
       THEN /\ staleRead' = (staleRead \/ ReadsReleased(requests, live))
            /\ written' = written + 1
            /\ report' = "saved"
            /\ fps' = video_fps(Len(requests), end_time - start_time)
       ELSE /\ report' = "nothing to save"
            /\ UNCHANGED <<staleRead, written, fps>>
    /\ pc' = "done"
    /\ UNCHANGED <<sessionVars, primeHist, submitHist, badUnlock, buffers,
                   final_image, goodBlocks, now, start_time, end_time, convertVars, i, k, queued, acquiring, queue,
                   held, live, completed, request_nr, p_request,
                   previous_request, frame, outcome, warning_flag, log, saved,
                   stitched_blocks, requests, stop, stopThread,
                   waitsAfterStop, lastSubmit>>

Next ==
    \/ Prime_frames
    \/ Prime_buffer
    \/ Prime_blocks
    \/ StartAcquisition
    \/ SetStop
    \/ LoopCheck
    \/ WaitFails
    \/ WaitReturns
    \/ Process_frames
    \/ Process_blocks
    \/ Process_buffer
    \/ ReleasePrevious
    \/ Resubmit
    \/ StopAcquisition
    \/ Finalize_blocks
    \/ Finalize_buffer

Spec == Init /\ [][Next]_vars

\* ------------------------------------------- the conversion on its own
\* Sample values at the ends and around the middle of the 16-bit range.
EdgeSamples == {0, 1, 128, 129, 32767, 32768, 65534, 65535}

\* A mono pixel over the whole 16-bit range, or an RGB pixel of edge values.
ConvertInputs ==
    {<<x>> : x \in 0..MaxSample} \cup [1..3 -> EdgeSamples]

InitConvert ==
    /\ script = "convert"
    /\ height = 1
    /\ width = 1
    /\ bit_depth = 16
    /\ requestCount = 0
    /\ frame_count = 0
    /\ pc = "convert"
    /\ stopThread = "none"
    /\ NotStarted
    /\ cvIn \in ConvertInputs
    /\ channels = Len(cvIn)
    /\ cvOut = <<>>

\* arr = arr.reshape((height, width, channels)); cv2.convertScaleAbs(arr, alpha)
ConvertStep ==
    /\ pc = "convert"
    /\ cvOut' = convertScaleAbs(cvIn)
    /\ pc' = "converted"
    /\ UNCHANGED <<sessionVars, histVars, cvIn, i, k, queued, acquiring, queue, held,
                   live, completed, request_nr, p_request, previous_request,
                   frame, outcome, warning_flag, log, saved, stitched_blocks,
                   requests, stop, stopThread, waitsAfterStop, staleRead,
                   written, report, lastSubmit>>

NextConvert == ConvertStep

SpecConvert == InitConvert /\ [][NextConvert]_vars

\* ================================================================ claims
StopScripts == {"capture_and_buffer", "capture_blocks"}

LoopEnded == pc \in {"finalize", "done"}

Outstanding == Len(queue) + Cardinality(held)

\* The frame of the current iteration has been through validation.
Validated == frame # NoFrame /\ frame.isOK /\ outcome # "none"

Accumulated ==
    IF script = "capture_blocks" THEN stitched_blocks ELSE requests

\* C1: when the acquisition loop has terminated, every request returned by
\* a successful wait has been unlocked; none remains held.
C1_AllReleasedAfterLoop == LoopEnded => held = {}

\* C2: no sink reads frame data from a hardware buffer whose request has
\* been unlocked.
C2_NoReadAfterRelease == ~staleRead

\* C3: once the stop flag is set, capture_blocks and capture_and_buffer
\* start at most one further wait, whatever that wait returns, never wait
\* again after it, and end with the acquisition stopped.
C3_StopLeavesLoopAndStops ==
    script \in StopScripts =>
        /\ waitsAfterStop <= 1
        /\ (waitsAfterStop = 1 => pc # "wait")
        /\ ((stop /\ pc \in {"done", "crashed"}) => ~acquiring)

\* C4 as stated: requests queued in the device plus requests held by the
\* loop never exceed the queue depth, 20 in capture_and_buffer and 5 in
\* capture_blocks.
C4_OutstandingWithinDepth ==
    /\ script = "capture_and_buffer" => Outstanding <= MAX_REQUESTS
    /\ script = "capture_blocks" => Outstanding <= InitialBlockRequests

\* C4 amended: the requests queued in the device never exceed the queue
\* depth; queued plus held never exceed 20 in capture_and_buffer and 6
\* (depth plus the one held request) in capture_blocks.
C4_QueuedWithinDepth ==
    /\ script = "capture_and_buffer" =>
           Len(queue) <= MAX_REQUESTS /\ Outstanding <= MAX_REQUESTS
    /\ script = "capture_blocks" =>
           /\ Len(queue) <= InitialBlockRequests
           /\ Outstanding <= InitialBlockRequests + 1

\* C4 witness: capture_blocks with a full queue and one request held.
C4_Witness ==
    /\ script = "capture_blocks"
    /\ Len(queue) = InitialBlockRequests
    /\ Cardinality(held) = 1

\* C5 as stated: at any time at most one request returned by a successful
\* wait is held unreleased by the loop.
C5_AtMostOneHeld == Cardinality(held) <= 1

\* C5 amended: at every wait call at most one request is held (none in
\* capture_and_buffer) and the submission replacing it has been attempted;
\* between a successful wait and the release of the previous request the
\* loop holds at most two, the current and the previous one.
C5_AtMostOneHeldAtWait ==
    /\ Cardinality(held) <= 2
    /\ pc \in {"loop", "wait"} =>
           /\ Cardinality(held) <= 1
           /\ (held # {} => lastSubmit # "none")
    /\ script = "capture_and_buffer" =>
           /\ Cardinality(held) <= 1
           /\ (pc \in {"loop", "wait"} => held = {})

\* C5 witness: the current and the previous request are both held, the
\* replacement of the previous one already queued.
C5_Witness ==
    /\ pc = "release"
    /\ Cardinality(held) = 2
    /\ held = {p_request.nr, previous_request.nr}
    /\ lastSubmit = "ok"

\* C6: a malformed or unsupported frame never aborts the loop: no exception
\* unwinds it.
C6_MalformedNeverAborts == outcome # "raised" /\ pc # "crashed"

\* C7: a frame whose byte size is inconsistent with its declared dimensions
\* is always rejected as malformed, never converted or delivered to a sink.
C7_InconsistentAlwaysRejected ==
    (Validated /\ ~Consistent(frame)) => outcome = "rejected"

\* C8: the first rejection of a session prints the verbose diagnostic,
\* every later one the terse notice.
C8_VerboseOnceThenTerse ==
    \A j \in 1..Len(log) : log[j] = IF j = 1 THEN "verbose" ELSE "terse"

\* C9: every converted sample is the nearest integer to in*255/65535, within
\* 0..255, sample by sample in the order of the input.
C9_ConvertIsRoundedRescale ==
    pc = "converted" =>
        /\ Len(cvOut) = Len(cvIn)
        /\ \A j \in 1..Len(cvIn) :
               /\ cvOut[j] \in 0..255
               /\ 2 * Abs(cvIn[j] * 255 - cvOut[j] * 65535) <= 65535

\* C9 witness: an RGB pixel with three different samples has been converted.
C9_Witness ==
    /\ pc = "converted"
    /\ cvIn = <<0, 32768, 65535>>
    /\ cvOut = <<0, 128, 255>>

\* C10: the accumulating sinks write nothing while the loop runs; when it
\* has stopped they write their file exactly once if a frame was
\* accumulated, and write nothing and report it if none was.
C10_WriteOnceAtFinalize ==
    /\ pc # "done" => written = 0 /\ report = "none"
    /\ (pc = "done" /\ script \in StopScripts) =>
           IF Accumulated # <<>>
           THEN written = 1 /\ report = "saved"
           ELSE written = 0 /\ report = "nothing to save"

\* C10 witness: capture_and_buffer stopped with two frames accumulated and
\* one file written.
C10_Witness ==
    /\ script = "capture_and_buffer"
    /\ pc = "done"
    /\ Len(requests) = 2
    /\ written = 1

\* The loop and what follows it.
Running == pc \notin {"prime", "start"}

InitialRequests ==
    IF script = "capture_and_buffer" THEN MAX_REQUESTS ELSE InitialBlockRequests

\* C11: priming is best-effort: all n initial submissions are attempted,
\* the k the device accepted are exactly the requests queued afterwards, no
\* exception comes out of priming and the loop is entered.
C11_PrimingBestEffort ==
    script \in StopScripts =>
        /\ primed + primeFailed = k
        /\ k <= InitialRequests
        /\ (pc = "prime" => Len(queue) = primed /\ k < InitialRequests)
        /\ (pc = "start" =>
               /\ k = InitialRequests
               /\ Len(queue) = primed
               /\ held = {}
               /\ (script = "capture_and_buffer" => queued = primed)
               /\ ENABLED StartAcquisition)
        /\ (pc = "crashed" => outcome = "raised")

\* C11 witness: capture_and_buffer primed with 7 of 20 submissions accepted
\* and the loop entered.
C11_Witness ==
    /\ script = "capture_and_buffer"
    /\ pc = "loop" /\ completed = 0
    /\ primed = 7 /\ primeFailed = 13
    /\ Len(queue) = 7

\* C12: if priming queues no request the session is aborted and the loop
\* never enters its running state.
C12_ZeroPrimedIsFatal == primed = 0 => ~Running /\ ~acquiring

\* C18: the priming loop of capture_frames goes on while the device accepts
\* and ends at its first refusal: with a pool of N free requests, after N
\* accepted submissions and one refused; acquisition starts after that.
C18_PrimeFramesFillsPool ==
    script = "capture_frames" =>
        /\ (pc = "prime" =>
               /\ primeFailed = 0
               /\ primed = Len(queue)
               /\ primed <= requestCount
               /\ ~acquiring
               /\ ENABLED Prime_frames)
        /\ (pc # "prime" => primed = requestCount /\ primeFailed = 1)

\* C18 witness: a pool of 21 requests, all queued, then one refusal, and the
\* acquisition started.
C18_Witness ==
    /\ script = "capture_frames"
    /\ requestCount = 21 /\ primed = 21 /\ primeFailed = 1
    /\ acquiring

\* C17: unlock is only ever called on a request that a wait returned and
\* that has not been unlocked since: never on a request still queued in the
\* device, never twice for one completion.
C17_UnlockOnlyHeld == ~badUnlock

\* C17 witness: capture_frames, with one failed wait among its iterations,
\* has unlocked the first request while handling the second.
C17_Witness ==
    /\ script = "capture_frames"
    /\ pc = "resubmit"
    /\ completed = 2 /\ i = 2
    /\ live = {2}
    /\ ~badUnlock

\* C16: after every valid wait exactly one resubmission is attempted before
\* the next wait and none after a failed wait; every refused resubmission is
\* reported; and while no resubmission has been refused, the number of
\* requests queued at each wait equals the number queued by priming.
C16_OneResubmitPerValidWait ==
    /\ pc \in {"loop", "wait"} => resubmits = completed
    /\ resubmitReported = resubmitFailed
    /\ (pc = "wait" /\ resubmitFailed = 0 => Len(queue) = primed)

\* C14: capture_frames leaves its loop only after frame_count frames were
\* returned by successful waits and processed, whatever number of waits
\* failed in between.
C14_CapturesFrameCount ==
    script = "capture_frames" /\ pc \in {"stopacq", "done"} =>
        completed = frame_count

\* The image the accepted blocks make: the rows of each OK, well-formed
\* frame, once, in completion order.
RECURSIVE Concatenated(_)
Concatenated(blocks) ==
    IF blocks = <<>> THEN <<>>
    ELSE Rows(Head(blocks).seq, Head(blocks).height) \o Concatenated(Tail(blocks))

RECURSIVE SumHeights(_)
SumHeights(blocks) ==
    IF blocks = <<>> THEN 0 ELSE Head(blocks).height + SumHeights(Tail(blocks))

\* C13: the stitched image written at finalize is the vertical concatenation
\* of exactly the accepted blocks, each once, in completion order; its
\* height is the sum of their heights; rejected and not-OK frames add nothing.
C13_StitchedIsConcatenation ==
    script = "capture_blocks" /\ pc = "done" /\ report = "saved" =>
        /\ final_image = Concatenated(goodBlocks)
        /\ Len(final_image) = SumHeights(goodBlocks)

SameRate(a, b) == a.num * b.den = b.num * a.den

\* C15: the video is encoded at max(frameCount / (timestamp of the last
\* accumulated frame - timestamp of the first), 1.0), whatever time passed
\* before the first frame and after the last one.
C15_FpsFromFrameTimestamps ==
    script = "capture_and_buffer" /\ pc = "done" /\ Len(requests) >= 2 =>
        SameRate(fps,
                 max_one([num |-> Len(requests),
                          den |-> requests[Len(requests)].t - requests[1].t]))

====
